---- MODULE Spec2Model ----
(***************************************************************************)
(* Model of the scrape engine of the exporter: the composite DFSR          *)
(* collector (collector/dfsr.go) with its concurrently running child       *)
(* sources, the shared child-failure counter, the per-scrape context and   *)
(* output channel; the network and container collectors; the registration  *)
(* of collectors by the init functions; and the attribute decoder of the   *)
(* SMART collector (collector/smart.go).                                   *)
(***************************************************************************)
EXTENDS Integers, Sequences, FiniteSets, Bags, TLC

\* ------------------------------------------------------------------ bounds
\* Most instances (rows) a counter table of the snapshot holds.
MaxRows == 1
\* Most Collect calls started on the one collector instance in a behaviour.
MaxCalls == 2
\* Most rows the interface query returns.
MaxNics == 2
\* Most containers the container query returns.
MaxContainers == 2
\* Most network endpoints of a container.
MaxEndpoints == 1
\* The longest byte table holds MaxRecords whole records and a cut one.
MaxRecords == 2
\* A SMART query answers at most MaxDisks disks.
MaxDisks == 2
\* The longest flag value dfsrExpandEnabledSources is applied to.
MaxLen == 5

\* --------------------------------------------------------------- strings
\* A flag value is a string.  It is modelled as a sequence over a coarse
\* alphabet: the separator "," and a few words that stand for runs of other
\* characters.  A token (a string without separator) is a sequence of words,
\* <<>> is the empty string.
Comma == ","

Range(f) == {f[i] : i \in DOMAIN f}

\* strings.Split(str, ","): the pieces between the separators, in order.
RECURSIVE Split(_)
Split(str) ==
    IF \A i \in 1..Len(str) : str[i] # Comma
    THEN <<str>>
    ELSE LET i == CHOOSE k \in 1..Len(str) :
                      /\ str[k] = Comma
                      /\ \A j \in 1..(k - 1) : str[j] # Comma
         IN  <<SubSeq(str, 1, i - 1)>> \o Split(SubSeq(str, i + 1, Len(str)))

\* A variant that appends every non-empty piece instead of the map's keys.
dfsrExpandEnabledSourcesAppendsPieces(enabled) ==
    {SelectSeq(Split(enabled), LAMBDA piece : piece # <<>>)}

\* The slices the function can return: the keys of the map `unique`, each
\* appended once, in the map's iteration order, which Go leaves unspecified.
dfsrExpandEnabledSources(enabled) ==
    LET separated == Split(enabled)
        unique == {separated[i] :
                      i \in {k \in DOMAIN separated : separated[k] # <<>>}}
    IN  {result \in [1..Cardinality(unique) -> unique] : Range(result) = unique}

\* prefix + suffix, the suffix chosen by the switch (empty by default).
dfsrGetPerfObjectName(collector) ==
    CASE collector = <<"connection">> -> "DFS Replication Connections"
      [] collector = <<"folder">>     -> "DFS Replicated Folders"
      [] collector = <<"volume">>     -> "DFS Replication Service Volumes"
      [] OTHER                        -> "DFS "

\* The values of --collectors.dfsr.sources-enabled the model starts from:
\* the default, single sources, a pair, a repeated source with an empty
\* token, the empty string and an unknown source.
DefaultSourcesEnabled == <<"connection", ",", "folder", ",", "volume">>

SourcesEnabledValues ==
    { DefaultSourcesEnabled,
      <<"connection">>,
      <<"folder", ",", "volume">>,
      <<"volume", ",", ",", "volume">>,
      <<>>,
      <<"x">> }

\* perfCounters handed to addPerfCounterDependencies by the constructor.
NewDFSRCollectorDependencies(flag) ==
    UNION {{dfsrGetPerfObjectName(c) : c \in Range(result)} :
              result \in dfsrExpandEnabledSources(flag)}

\* ------------------------------------------------------------- descriptors
ConnectionDescs ==
    << [desc |-> "ConnectionBandwidthSavingsUsingDFSReplicationTotal",
        fq |-> "bandwidth_savings_using_dfs_replication_total"],
       [desc |-> "ConnectionBytesReceivedTotal",
        fq |-> "bytes_received_total"],
       [desc |-> "ConnectionCompressedSizeOfFilesReceivedTotal",
        fq |-> "compressed_size_of_files_received_total"],
       [desc |-> "ConnectionFilesReceivedTotal",
        fq |-> "files_received_total"],
       [desc |-> "ConnectionRDCBytesReceivedTotal",
        fq |-> "rdc_bytes_received_total"],
       [desc |-> "ConnectionRDCCompressedSizeOfFilesReceivedTotal",
        fq |-> "rdc_compressed_size_of_files_received_total"],
       [desc |-> "ConnectionRDCSizeOfFilesReceivedTotal",
        fq |-> "rdc_size_of_files_received_total"],
       [desc |-> "ConnectionRDCNumberofFilesReceivedTotal",
        fq |-> "rdc_number_of_files_received_total"],
       [desc |-> "ConnectionSizeOfFilesReceivedTotal",
        fq |-> "size_of_files_received_total"] >>

FolderDescs ==
    << [desc |-> "FolderBandwidthSavingsUsingDFSReplicationTotal",
        fq |-> "bandwidth_savings_using_dfs_replication_total"],
       [desc |-> "FolderCompressedSizeOfFilesReceivedTotal",
        fq |-> "compressed_size_of_files_received_total"],
       [desc |-> "FolderConflictBytesCleanedupTotal",
        fq |-> "conflict_bytes_cleaned_up_total"],
       [desc |-> "FolderConflictBytesGeneratedTotal",
        fq |-> "conflict_bytes_generated_total"],
       [desc |-> "FolderConflictFilesCleanedUpTotal",
        fq |-> "conflict_files_cleaned_up_total"],
       [desc |-> "FolderConflictFilesGeneratedTotal",
        fq |-> "conflict_files_generated_total"],
       [desc |-> "FolderConflictFolderCleanupsCompletedTotal",
        fq |-> "conflict_folder_cleanups_total"],
       [desc |-> "FolderConflictSpaceInUse",
        fq |-> "conflict_space_in_use"],
       [desc |-> "FolderDeletedSpaceInUse",
        fq |-> "deleted_space_in_use"],
       [desc |-> "FolderDeletedBytesCleanedUpTotal",
        fq |-> "deleted_bytes_cleaned_up_total"],
       [desc |-> "FolderDeletedBytesGeneratedTotal",
        fq |-> "deleted_bytes_generated_total"],
       [desc |-> "FolderDeletedFilesCleanedUpTotal",
        fq |-> "deleted_files_cleaned_up_total"],
       [desc |-> "FolderDeletedFilesGeneratedTotal",
        fq |-> "deleted_files_generated_total"],
       [desc |-> "FolderFileInstallsRetriedTotal",
        fq |-> "file_installs_retried_total"],
       [desc |-> "FolderFileInstallsSucceededTotal",
        fq |-> "file_installs_succeeded_total"],
       [desc |-> "FolderFilesReceivedTotal",
        fq |-> "files_received_total"],
       [desc |-> "FolderRDCBytesReceivedTotal",
        fq |-> "rdc_bytes_received_total"],
       [desc |-> "FolderRDCCompressedSizeOfFilesReceivedTotal",
        fq |-> "rdc_compressed_size_of_files_received_total"],
       [desc |-> "FolderRDCNumberofFilesReceivedTotal",
        fq |-> "rdc_number_of_files_received_total"],
       [desc |-> "FolderRDCSizeOfFilesReceivedTotal",
        fq |-> "rdc_size_of_files_received_total"],
       [desc |-> "FolderSizeOfFilesReceivedTotal",
        fq |-> "size_of_files_received_total"],
       [desc |-> "FolderStagingSpaceInUse",
        fq |-> "staging_space_in_use"],
       [desc |-> "FolderStagingBytesCleanedUpTotal",
        fq |-> "staging_bytes_cleaned_up_total"],
       [desc |-> "FolderStagingBytesGeneratedTotal",
        fq |-> "staging_bytes_generated_total"],
       [desc |-> "FolderStagingFilesCleanedUpTotal",
        fq |-> "staging_files_cleaned_up_total"],
       [desc |-> "FolderStagingFilesGeneratedTotal",
        fq |-> "staging_files_generated_total"],
       [desc |-> "FolderUpdatesDroppedTotal",
        fq |-> "updates_dropped_total"] >>

VolumeDescs ==
    << [desc |-> "VolumeDatabaseLookupsTotal",
        fq |-> "database_lookups_total"],
       [desc |-> "VolumeDatabaseCommitsTotal",
        fq |-> "database_commits_total"],
       [desc |-> "VolumeUSNJournalRecordsAcceptedTotal",
        fq |-> "usn_journal_records_accepted_total"],
       [desc |-> "VolumeUSNJournalRecordsReadTotal",
        fq |-> "usn_journal_records_read_total"],
       [desc |-> "VolumeUSNJournalUnreadPercentage",
        fq |-> "usn_journal_unread_percentage"] >>

\* ---------------------------------------------------------------- samples
\* BuildFQName(Namespace, subsystem, name); the namespace is the same for all.
BuildFQName(subsystem, name) == <<subsystem, name>>

\* prometheus.MustNewConstMetric(desc, valueType, value, labelValues...): the
\* sample carries its descriptor and its label values; the float value of a
\* data sample is whatever the counter row holds and is not modelled.
MustNewConstMetric(subsystem, d, labelValues) ==
    [desc |-> d.desc, fq |-> BuildFQName(subsystem, d.fq), labels |-> labelValues]

\* The bag holding the elements of a sequence, each as often as it occurs.
SeqToBag(seq) ==
    [x \in Range(seq) |-> Cardinality({i \in DOMAIN seq : seq[i] = x})]

RECURSIVE Flatten(_)
Flatten(seqs) ==
    IF seqs = <<>> THEN <<>> ELSE Head(seqs) \o Flatten(Tail(seqs))

\* ------------------------------------------------------- scrape context
\* The counter objects the system can expose: those of the DFSR sources and
\* the object "z" of collector "B".
SystemObjects ==
    {"DFS Replication Connections", "DFS Replicated Folders",
     "DFS Replication Service Volumes", "z"}

\* A counter table: instances 1..k, the instance name being the index.
Tables == {[i \in 1..k |-> [Name |-> i]] : k \in 0..MaxRows}

\* A fetched counter object: readable with its rows, or one that cannot be
\* unmarshalled.
PerfObjects ==
    {[ok |-> TRUE, rows |-> t] : t \in Tables} \cup {[ok |-> FALSE, rows |-> <<>>]}

\* Snapshot Provider, fetch(objectNames): a table for each requested object
\* that is available; an unavailable object is missing from the map.
Snapshots(objectNames) ==
    UNION {[D -> PerfObjects] : D \in SUBSET (objectNames \cap SystemObjects)}

\* unmarshalObject(ctx.perfObjects[name], &dst): a missing key gives a nil
\* object, which is an error like an object that cannot be read.
unmarshalObject(perfObjects, name) ==
    IF name \in DOMAIN perfObjects /\ perfObjects[name].ok
    THEN [err |-> FALSE, dst |-> perfObjects[name].rows]
    ELSE [err |-> TRUE, dst |-> <<>>]

\* ------------------------------------------------------- child sources
\* The loop body of a child source: one sample per descriptor, in the order
\* of the sends, each labelled with the instance name.
SendRowsSkipsFirstDescriptor(dst, descs) ==
    Flatten([r \in DOMAIN dst |->
               [j \in 1..(Len(descs) - 1) |->
                  MustNewConstMetric("dfsr", descs[j + 1], <<dst[r].Name>>)]])

SendRows(dst, descs) ==
    Flatten([r \in DOMAIN dst |->
               [j \in DOMAIN descs |->
                  MustNewConstMetric("dfsr", descs[j], <<dst[r].Name>>)]])

\* The counter object each child function hands to unmarshalObject.
perfObjectRead ==
    [connection |-> "DFS Replication Connections",
     folder     |-> "DFS Replicated Folders",
     volume     |-> "DFS Replication Service Volumes"]

\* The descriptors each child function sends with.
childDescs ==
    [connection |-> ConnectionDescs,
     folder     |-> FolderDescs,
     volume     |-> VolumeDescs]

collectConnection(c) ==
    LET u == unmarshalObject(c.perfObjects, perfObjectRead["connection"])
    IN  IF u.err THEN [err |-> TRUE, sent |-> <<>>]
        ELSE [err |-> FALSE, sent |-> SendRows(u.dst, childDescs["connection"])]

collectFolderSwallowsError(c) ==
    LET u == unmarshalObject(c.perfObjects, perfObjectRead["folder"])
    IN  [err |-> FALSE, sent |-> SendRows(u.dst, childDescs["folder"])]

collectFolder(c) ==
    LET u == unmarshalObject(c.perfObjects, perfObjectRead["folder"])
    IN  IF u.err THEN [err |-> TRUE, sent |-> <<>>]
        ELSE [err |-> FALSE, sent |-> SendRows(u.dst, childDescs["folder"])]

collectVolume(c) ==
    LET u == unmarshalObject(c.perfObjects, perfObjectRead["volume"])
    IN  IF u.err THEN [err |-> TRUE, sent |-> <<>>]
        ELSE [err |-> FALSE, sent |-> SendRows(u.dst, childDescs["volume"])]

\* The map of child names to child functions built by the constructor.
getDFSRChildCollectors ==
    [connection |-> "collectConnection",
     folder     |-> "collectFolder",
     volume     |-> "collectVolume"]

\* fn(ctx, ch) for the function the map holds under a name.
dfsrCollectorFunc(fn, c) ==
    CASE fn = "collectConnection" -> collectConnection(c)
      [] fn = "collectFolder"     -> collectFolder(c)
      [] fn = "collectVolume"     -> collectVolume(c)

\* The two meta samples of execute, labelled with the child's name.
dfsrScrapeDurationMetric(name) ==
    MustNewConstMetric("dfsr",
        [desc |-> "dfsrScrapeDurationDesc", fq |-> "collector_duration_seconds"],
        <<name>>)

SuccessValueAlwaysOne(err) == 1

SuccessValue(err) == IF err THEN 0 ELSE 1

dfsrScrapeSuccessMetric(name, success) ==
    [desc   |-> "dfsrScrapeSuccessDesc",
     fq     |-> BuildFQName("dfsr", "collector_success"),
     labels |-> <<name>>,
     value  |-> success]


\* ------------------------------------------------------ network collector
\* Interface names are sequences of characters; <<"l", "o">> stands for the
\* loopback interface.
AlphaNumeric == {"e", "0", "l", "o"}
NicNames ==
    {<<>>, <<"e", "0">>, <<"e", " ", "0">>, <<"e", "_", "0">>, <<"l", "o">>}

\* A regular expression: a literal string, ".+", ".*", or "^(?:r)$" around
\* one (which is also how "^r$" behaves).
Literal(str) == [op |-> "literal", str |-> str]
AnyPlus == [op |-> "anyplus"]
AnyStar == [op |-> "anystar"]
Anchored(r) == [op |-> "anchored", r |-> r]

\* Whether the characters a..b-1 of str match r; the anchors hold only at
\* the two ends of str.
RECURSIVE MatchAt(_, _, _, _)
MatchAt(r, str, a, b) ==
    CASE r.op = "literal"  -> SubSeq(str, a, b - 1) = r.str
      [] r.op = "anyplus"  -> b - a >= 1
      [] r.op = "anystar"  -> TRUE
      [] r.op = "anchored" -> /\ a = 1
                              /\ b = Len(str) + 1
                              /\ MatchAt(r.r, str, a, b)

\* Whether the whole of str matches r.
FullMatch(r, str) == MatchAt(r, str, 1, Len(str) + 1)

\* Regexp.MatchString: whether str contains a match of the pattern.
MatchString(pattern, str) ==
    \E a \in 1..(Len(str) + 1) : \E b \in a..(Len(str) + 1) :
        MatchAt(pattern, str, a, b)

\* regexp.MustCompile(fmt.Sprintf("^(?:%s)$", flag)).
CompilePatternUnanchored(flag) == flag

CompilePattern(flag) == Anchored(flag)

\* Values of the flags collector.net.nic-whitelist (default ".+") and
\* collector.net.nic-blacklist (default "").
NicWhitelistValues == {AnyPlus, AnyStar, Literal(<<"e">>)}
NicBlacklistValues == {Literal(<<>>), Anchored(Literal(<<"l", "o">>)),
                       Literal(<<"0">>)}

\* nicNameToUnderscore.ReplaceAllString(name, "_") with [^a-zA-Z0-9].
mangleNetworkName(name) ==
    [i \in DOMAIN name |-> IF name[i] \in AlphaNumeric THEN name[i] ELSE "_"]

NetworkDescs ==
    << [desc |-> "BytesReceivedTotal",       fq |-> "bytes_received_total"],
       [desc |-> "BytesSentTotal",           fq |-> "bytes_sent_total"],
       [desc |-> "BytesTotal",               fq |-> "bytes_total"],
       [desc |-> "PacketsOutboundDiscarded", fq |-> "packets_outbound_discarded"],
       [desc |-> "PacketsOutboundErrors",    fq |-> "packets_outbound_errors"],
       [desc |-> "PacketsTotal",             fq |-> "packets_total"],
       [desc |-> "PacketsReceivedDiscarded", fq |-> "packets_received_discarded"],
       [desc |-> "PacketsReceivedErrors",    fq |-> "packets_received_errors"],
       [desc |-> "PacketsReceivedTotal",     fq |-> "packets_received_total"],
       [desc |-> "PacketsReceivedUnknown",   fq |-> "packets_received_unknown"],
       [desc |-> "PacketsSentTotal",         fq |-> "packets_sent_total"] >>

\* What wmi.Query can answer: an error, or the interface rows.
NetworkQueryResults ==
    {[err |-> TRUE, dst |-> <<>>]} \cup
    {[err |-> FALSE, dst |-> d] :
        d \in UNION {[1..k -> [Name : NicNames]] : k \in 0..MaxNics}}

\* The samples of one interface row: none when the row is filtered out or
\* its mangled name is empty.
NetworkRow(nic, whitelistPattern, blacklistPattern) ==
    IF \/ MatchString(blacklistPattern, nic.Name)
       \/ ~MatchString(whitelistPattern, nic.Name)
    THEN <<>>
    ELSE LET name == mangleNetworkName(nic.Name)
         IN  IF name = <<>> THEN <<>>
             ELSE [j \in DOMAIN NetworkDescs |->
                     MustNewConstMetric("net", NetworkDescs[j], <<name>>)]

NetworkCollectEmptyIsError(q, whitelistPattern, blacklistPattern) ==
    LET sent == IF q.err THEN <<>>
                ELSE Flatten([i \in DOMAIN q.dst |->
                        NetworkRow(q.dst[i], whitelistPattern, blacklistPattern)])
    IN  [err |-> q.err \/ sent = <<>>, sent |-> sent]

\* NetworkCollector.collect on the answer q of the query.
NetworkCollect(q, whitelistPattern, blacklistPattern) ==
    IF q.err THEN [err |-> TRUE, sent |-> <<>>]
    ELSE [err |-> FALSE,
          sent |-> Flatten([i \in DOMAIN q.dst |->
                      NetworkRow(q.dst[i], whitelistPattern, blacklistPattern)])]

\* ---------------------------------------------------- container collector
ContainerDescs ==
    << [desc |-> "ContainerAvailable",          fq |-> "available"],
       [desc |-> "UsageCommitBytes",            fq |-> "memory_usage_commit_bytes"],
       [desc |-> "UsageCommitPeakBytes",        fq |-> "memory_usage_commit_peak_bytes"],
       [desc |-> "UsagePrivateWorkingSetBytes", fq |-> "memory_usage_private_working_set_bytes"],
       [desc |-> "TotalRuntime100ns",           fq |-> "cpu_usage_seconds_total"],
       [desc |-> "RuntimeUser100ns",            fq |-> "cpu_usage_seconds_usermode"],
       [desc |-> "RuntimeKernel100ns",          fq |-> "cpu_usage_seconds_kernelmode"] >>

ContainerNetworkDescs ==
    << [desc |-> "BytesReceived",          fq |-> "network_receive_bytes_total"],
       [desc |-> "BytesSent",              fq |-> "network_transmit_bytes_total"],
       [desc |-> "PacketsReceived",        fq |-> "network_receive_packets_total"],
       [desc |-> "PacketsSent",            fq |-> "network_transmit_packets_total"],
       [desc |-> "DroppedPacketsIncoming", fq |-> "network_receive_packets_dropped_total"],
       [desc |-> "DroppedPacketsOutgoing", fq |-> "network_transmit_packets_dropped_total"] >>

\* What the container service answers for one container: whether
\* OpenContainer and Statistics succeed, and the endpoints of its statistics.
ContainerStates ==
    {[open |-> FALSE, stats |-> FALSE, Network |-> <<>>],
     [open |-> TRUE, stats |-> FALSE, Network |-> <<>>]} \cup
    {[open |-> TRUE, stats |-> TRUE, Network |-> [e \in 1..k |-> <<"endpoint", e>>]] :
        k \in 0..MaxEndpoints}

\* What hcsshim.GetContainers can answer; the ID of a container is its index.
ContainerQueryResults ==
    {[err |-> TRUE, dst |-> <<>>]} \cup
    {[err |-> FALSE, dst |-> d] :
        d \in UNION {[1..k -> ContainerStates] : k \in 0..MaxContainers}}

\* "docker://" + containerId
DockerId(id) == <<"docker://", id>>

\* The loop body for one container.
ContainerRow(id, details) ==
    IF ~details.open THEN <<>>
    ELSE IF ~details.stats THEN <<>>
    ELSE [j \in DOMAIN ContainerDescs |->
             MustNewConstMetric("container", ContainerDescs[j], <<DockerId(id)>>)]
         \o Flatten([e \in DOMAIN details.Network |->
             [j \in DOMAIN ContainerNetworkDescs |->
                 MustNewConstMetric("container", ContainerNetworkDescs[j],
                                    <<DockerId(id), details.Network[e]>>)]])

\* A variant that returns an error, and sends nothing, when a container
\* fails to open or to give its statistics.
ContainerCollectFailsOnContainer(q) ==
    IF q.err THEN [err |-> TRUE, sent |-> <<>>]
    ELSE IF \E i \in DOMAIN q.dst : ~q.dst[i].open \/ ~q.dst[i].stats
    THEN [err |-> TRUE, sent |-> <<>>]
    ELSE [err |-> FALSE,
          sent |-> Flatten([i \in DOMAIN q.dst |-> ContainerRow(i, q.dst[i])])]

\* ContainerMetricsCollector.collect on the answer q of GetContainers.
ContainerCollect(q) ==
    IF q.err THEN [err |-> TRUE, sent |-> <<>>]
    ELSE IF Len(q.dst) = 0 THEN [err |-> FALSE, sent |-> <<>>]
    ELSE [err |-> FALSE,
          sent |-> Flatten([i \in DOMAIN q.dst |-> ContainerRow(i, q.dst[i])])]

\* ------------------------------------------------------------------ state
Scrapes == {"s1", "s2"}
Collectors == {"dfsr", "net", "container", "B"}
Children == DOMAIN getDFSRChildCollectors

VARIABLES
    collectorsEnabled,          \* the enabled top-level collectors
    dfsrEnabledCollectors,      \* the flag collectors.dfsr.sources-enabled
    nicWhitelist,               \* the flag collector.net.nic-whitelist
    nicBlacklist,               \* the flag collector.net.nic-blacklist
    perfCounterDependencies,    \* per collector: the object names it declared
    dfsrChildCollectorFailure,  \* the DFSR collector's failure counter
    calls,                      \* scrapes started so far
    pc,                         \* per scrape: "idle", "running", "done"
    ctx,                        \* per scrape: its ScrapeContext
    answer,                     \* per scrape and collector: what its query answered
    ch,                         \* per scrape and collector: samples sent
    unit,                       \* per scrape and collector: "none", "run", "nil", "err"
    wg,                         \* per scrape: the WaitGroup counter of Collect
    cpc,                        \* per scrape and child: position in execute
    cerr,                       \* per scrape and child: "none", "nil", "err"
    tmp,                        \* per scrape and child: counter value loaded
    entryCount,                 \* per scrape: the counter when Collect began
    readCount,                  \* per scrape: the counter read after the join
    fetches,                    \* per scrape: invocations of the Snapshot Provider
    fetched,                    \* per scrape: the object names it was asked for
    Factories,                  \* the map of constructors filled by the init functions
    builders,                   \* the registry behind registerCollector
    registryError,              \* a fatal configuration error was raised
    VendorSpecific,             \* the byte table of the disk being decoded
    recordStart,                \* the loop variable i of the decoder
    dpc,                        \* the decoder: "idle", "disk", "loop", "panic", "return"
    sig,                        \* the signals and counts decoded so far
    reads,                      \* the byte indexes the decoder has read
    turn,                       \* the last turn of the decoder's loop
    dst,                        \* the disks the loop over dst has not reached
    smartCh,                    \* the samples the SMART collector has sent
    smartUnit,                  \* the SMART Collect call: "none", "run", "nil", "err"
    enabledArg,                 \* the string dfsrExpandEnabledSources is applied to
    expandResult                \* whether it has returned, and the slice returned

config == <<collectorsEnabled, dfsrEnabledCollectors, nicWhitelist,
            nicBlacklist, perfCounterDependencies>>

provider == <<fetches, fetched>>
registry == <<Factories, builders, registryError>>
smartCall == <<dst, smartCh, smartUnit>>
smart == <<VendorSpecific, recordStart, dpc, sig, reads, turn, smartCall>>
sourcesCall == <<enabledArg, expandResult>>
rest == <<registry, smart, sourcesCall>>

vars == <<config, dfsrChildCollectorFailure, calls, pc, ctx, answer, ch, unit,
          wg, cpc, cerr, tmp, entryCount, readCount, provider, registry, smart,
          sourcesCall>>

NoContext == [perfObjects |-> <<>>]

\* A second snapshot-based collector, "B", which declares the object "z"
\* and, like the DFSR collector, the folder object.
DependenciesB == {"z", "DFS Replicated Folders"}
NoAnswer == [err |-> FALSE, dst |-> <<>>]

\* ------------------------------------------------------- SMART decoder
\* The Go operator ^ on integers: bitwise exclusive or.
RECURSIVE Xor(_, _)
Xor(a, b) ==
    IF a = 0 THEN b
    ELSE IF b = 0 THEN a
    ELSE (((a % 2) + (b % 2)) % 2) + 2 * Xor(a \div 2, b \div 2)

\* The locals of collect that the decoding loop sets, as they are declared
\* for each disk.
InitialSignals ==
    [rawreaderror |-> 0, attrcriterror |-> 0, hddattrcriterror |-> 0,
     dmacrcerror |-> 0, softreaderror |-> 0, programfailcount |-> 0,
     erasefailcount |-> 0, programfailcount2 |-> 0, erasefailcount2 |-> 0,
     spinavg |-> 0, reallocatedsectors |-> 0, spinretry |-> 0,
     reserveblocks |-> 0, endtoend |-> 0, commandtimeout |-> 0,
     lifetimeremain |-> 0, lbawrite |-> 0, reallocationevent |-> 0,
     pendingsectors |-> 0, uncorrectablesectors |-> 0, temperature |-> 0,
     tempmax |-> 0, tempmin |-> 0, poh |-> 0]

\* The attribute ids of the first switch that use the wide raw field.
WideIds == {4, 9, 193, 195, 200, 225, 241, 242, 246}

\* The first switch on i3: the raw value of the attribute.
vendecTemperatureWide(i3, i8, i9, i10, i11, i12) ==
    IF i3 \in WideIds \cup {194}
    THEN i12 * Xor(16, 8) + i11 * Xor(16, 6) + i10 * Xor(16, 4)
         + i9 * Xor(16, 2) + i8
    ELSE i9 * Xor(16, 2) + i8

vendec(i3, i8, i9, i10, i11, i12) ==
    IF i3 \in WideIds
    THEN i12 * Xor(16, 8) + i11 * Xor(16, 6) + i10 * Xor(16, 4)
         + i9 * Xor(16, 2) + i8
    ELSE IF i3 = 194 THEN i8
    ELSE i9 * Xor(16, 2) + i8

\* The second switch on i3, by what its cases do. The local that receives
\* the raw value:
RawSignal(i3) ==
    CASE i3 = 1   -> "rawreaderror"
      [] i3 = 5   -> "reallocatedsectors"
      [] i3 = 9   -> "poh"
      [] i3 = 10  -> "spinretry"
      [] i3 = 170 -> "reserveblocks"
      [] i3 = 171 -> "programfailcount"
      [] i3 = 172 -> "erasefailcount"
      [] i3 = 180 -> "reserveblocks"
      [] i3 = 181 -> "programfailcount2"
      [] i3 = 182 -> "erasefailcount2"
      [] i3 = 184 -> "endtoend"
      [] i3 = 188 -> "commandtimeout"
      [] i3 = 194 -> "temperature"
      [] i3 = 196 -> "reallocationevent"
      [] i3 = 197 -> "pendingsectors"
      [] i3 = 198 -> "uncorrectablesectors"
      [] i3 = 199 -> "dmacrcerror"
      [] i3 = 201 -> "softreaderror"
      [] i3 \in {225, 241, 246} -> "lbawrite"
      [] OTHER    -> "none"

\* ... the count that grows by one when that raw value is positive:
PositiveCount(i3) ==
    CASE i3 \in {5, 171, 172, 181, 182, 196}         -> "hddattrcriterror"
      [] i3 \in {10, 184, 188, 197, 198, 199, 201}    -> "attrcriterror"
      [] OTHER                                        -> "none"

\* ... and the threshold T of "if i6 <= T || i7 <= T" (-1: the case has no
\* such test).
Threshold(i3) ==
    CASE i3 \in {1, 3, 184} -> 50
      [] i3 = 7             -> 60
      [] i3 = 200           -> 99
      [] i3 \in {5, 170, 171, 172, 173, 177, 179, 181, 182, 183, 202, 226,
                 231, 232, 233} -> 10
      [] OTHER              -> -1

LifetimeIdsAndTwo == {2, 202, 231, 233}

\* The ids whose case sets lifetimeremain = int(i6).
LifetimeIds == {202, 231, 233}

CriticalWhenBoth(i6, i7, T) == i6 <= T /\ i7 <= T

\* if i6 <= T || i7 <= T.
Critical(i6, i7, T) == i6 <= T \/ i7 <= T

\* The second switch applied to the signals sg.
Score(sg, i3, i6, i7, i10, i11, i12, raw) ==
    LET s1 == IF RawSignal(i3) = "none" THEN sg
              ELSE [sg EXCEPT ![RawSignal(i3)] = raw]
        s2 == IF PositiveCount(i3) # "none" /\ raw > 0
              THEN [s1 EXCEPT ![PositiveCount(i3)] = @ + 1]
              ELSE s1
        s3 == IF Critical(i6, i7, Threshold(i3))
              THEN [s2 EXCEPT !.attrcriterror = @ + 1]
              ELSE s2
        s4 == IF i3 = 230 /\ i7 <= 90
              THEN [s3 EXCEPT !.attrcriterror = @ + 1]
              ELSE s3
        s5 == IF i3 \in LifetimeIds
              THEN [s4 EXCEPT !.lifetimeremain = i6]
              ELSE s4
        s6 == IF i3 = 3
              THEN [s5 EXCEPT !.spinavg = i11 * Xor(16, 2) + i10]
              ELSE s5
    IN  IF i3 = 194
        THEN [s6 EXCEPT !.tempmin = i10, !.tempmax = i12]
        ELSE s6

\* disk.VendorSpecific[j], j counted from 0.
ByteAt(data, j) == data[j + 1]

\* One turn of the loop "for i := 0; i < len; i += 12" at i, on the signals
\* sg: how the turn ends ("next" for i += 12, "break", or "panic" when an
\* index is out of range), whether it reached the two switches and with
\* which raw value, the signals after it and the indexes it read.
UnexpectedSmartBreaks(i, sg) ==
    [end |-> "break", scored |-> FALSE, raw |-> 0, sig |-> sg,
     read |-> {i, i + 1}]

\* The second byte of the record is not 0: log "unexpected smart" and
\* continue with the next record.
UnexpectedSmart(i, sg) ==
    [end |-> "next", scored |-> FALSE, raw |-> 0, sig |-> sg,
     read |-> {i, i + 1}]

DecodeTurn(data, i, sg) ==
    LET n == Len(data)
        v == ByteAt(data, i)
    IN  IF ~(v = 0 \/ v = 16)
        THEN [end |-> "next", scored |-> FALSE, raw |-> 0, sig |-> sg, read |-> {i}]
        ELSE IF n < i + 7
        THEN [end |-> "break", scored |-> FALSE, raw |-> 0, sig |-> sg, read |-> {i}]
        ELSE IF ByteAt(data, i + 1) # 0
        THEN UnexpectedSmart(i, sg)
        ELSE IF n < i + 8
        THEN [end |-> "panic", scored |-> FALSE, raw |-> 0, sig |-> sg,
              read |-> {i, i + 1, i + 3, i + 6, i + 7}]
        ELSE IF n = i + 12
        THEN [end |-> "panic", scored |-> FALSE, raw |-> 0, sig |-> sg,
              read |-> {i, i + 1, i + 3} \cup {i + k : k \in 6..12}]
        ELSE LET wide == n >= i + 12
                 i3  == ByteAt(data, i + 3)
                 i6  == ByteAt(data, i + 6)
                 i7  == ByteAt(data, i + 7)
                 i8  == IF wide THEN ByteAt(data, i + 8) ELSE 0
                 i9  == IF wide THEN ByteAt(data, i + 9) ELSE 0
                 i10 == IF wide THEN ByteAt(data, i + 10) ELSE 0
                 i11 == IF wide THEN ByteAt(data, i + 11) ELSE 0
                 i12 == IF wide THEN ByteAt(data, i + 12) ELSE 0
             IN  [end  |-> "next",
                  scored |-> TRUE,
                  raw  |-> vendec(i3, i8, i9, i10, i11, i12),
                  sig  |-> Score(sg, i3, i6, i7, i10, i11, i12,
                                 vendec(i3, i8, i9, i10, i11, i12)),
                  read |-> {i, i + 1, i + 3, i + 6, i + 7} \cup
                           (IF wide THEN {i + k : k \in 8..12} ELSE {})]

\* The byte tables the decoder is run on. A record has 12 bytes.
Record(b0, b1, i3, i6, i7, raw) ==
    <<b0, b1, 0, i3, 0, 0, i6, i7>> \o raw

\* The attribute ids of the two switches, and 2 for an id of neither.
AttributeIds ==
    WideIds \cup LifetimeIds \cup {2, 194, 230} \cup
    {i3 \in 0..255 : RawSignal(i3) # "none" \/ Threshold(i3) # -1}

\* Normalized and worst value on either side of each threshold.
NormalizedPairs ==
    {<<100, 100>>, <<50, 100>>, <<100, 50>>, <<10, 100>>, <<100, 10>>,
     <<60, 100>>, <<100, 60>>, <<90, 100>>, <<100, 90>>, <<99, 100>>,
     <<100, 99>>}

\* Any record: every id with every pair and a raw field of distinct bytes,
\* and with a raw field of zeros or of the largest bytes.
AnyRecords ==
    {Record(0, 0, i3, p[1], p[2], <<45, 1, 2, 3>>) :
        i3 \in AttributeIds, p \in NormalizedPairs} \cup
    {Record(0, 0, i3, 100, 100, raw) :
        i3 \in AttributeIds, raw \in {<<0, 0, 0, 0>>, <<255, 255, 255, 255>>}}

\* Records that come before the last one: one that is not active, a
\* sentinel, a malformed one, and two scored ones.
LeadingRecords ==
    {Record(1, 0, 194, 100, 100, <<45, 0, 0, 0>>),
     Record(16, 0, 194, 100, 100, <<45, 0, 0, 0>>),
     Record(0, 1, 194, 100, 100, <<45, 0, 0, 0>>),
     Record(0, 0, 5, 10, 100, <<1, 0, 0, 0>>),
     Record(0, 0, 9, 100, 100, <<1, 2, 3, 4>>)}

\* What follows the last record: nothing, a record cut short, or one byte.
TrailingBytes ==
    {SubSeq(Record(0, 0, 194, 100, 100, <<45, 0, 0, 0>>), 1, t) : t \in 0..11}
    \cup {<<16>>}

\* ------------------------------------------------------------- registry
\* The init functions of the collectors: Factories[name] = constructor.
FactoryNames == {"smart", "container", "net"}
Constructors ==
    {"NewSMARTCollector", "NewContainerMetricsCollector", "NewNetworkCollector"}
InitFunctions ==
    [n \in FactoryNames |->
        CASE n = "smart"     -> "NewSMARTCollector"
          [] n = "container" -> "NewContainerMetricsCollector"
          [] n = "net"       -> "NewNetworkCollector"]

\* Nothing is registered yet.
RegistryEmpty ==
    /\ Factories = [n \in {} |-> "none"]
    /\ builders = [n \in {} |-> "none"]
    /\ registryError = FALSE

\* Every init function has run once.
RegistryStarted ==
    /\ Factories = InitFunctions
    /\ builders = [n \in {"dfsr"} |-> "NewDFSRCollector"]
    /\ registryError = FALSE

\* dfsrExpandEnabledSources is not being applied.
NotExpanded == [returned |-> FALSE, slice |-> <<>>]
SourcesIdle ==
    /\ enabledArg = <<>>
    /\ expandResult = NotExpanded

\* No disk is being decoded.
NoTurn == [i |-> 0, scored |-> FALSE, raw |-> 0]
SmartIdle ==
    /\ VendorSpecific = <<>>
    /\ recordStart = 0
    /\ dpc = "idle"
    /\ sig = InitialSignals
    /\ reads = {}
    /\ turn = NoTurn
    /\ dst = <<>>
    /\ smartCh = EmptyBag
    /\ smartUnit = "none"

\* The configurations the model starts from: every value of the DFSR flag
\* with the DFSR collector alone, the network collector alone with each pair
\* of filter flags, and the container collector alone.
DefaultFilter == [whitelist |-> AnyPlus, blacklist |-> Literal(<<>>)]

Configurations ==
    {[enabled |-> {"dfsr"}, sources |-> f, filter |-> DefaultFilter] :
        f \in SourcesEnabledValues} \cup
    {[enabled |-> {"net"}, sources |-> DefaultSourcesEnabled,
      filter |-> [whitelist |-> w, blacklist |-> b]] :
        w \in NicWhitelistValues, b \in NicBlacklistValues} \cup
    {[enabled |-> {"container"}, sources |-> DefaultSourcesEnabled,
      filter |-> DefaultFilter]}

\* The collectors once they are constructed from the flags, no scrape begun.
InitCollectors(cfgs) ==
    /\ \E cfg \in cfgs :
          /\ collectorsEnabled = cfg.enabled
          /\ dfsrEnabledCollectors = cfg.sources
          /\ nicWhitelist = cfg.filter.whitelist
          /\ nicBlacklist = cfg.filter.blacklist
    /\ perfCounterDependencies =
           [k \in Collectors |->
               IF k \notin collectorsEnabled THEN {}
               ELSE IF k = "dfsr"
               THEN NewDFSRCollectorDependencies(dfsrEnabledCollectors)
               ELSE IF k = "B" THEN DependenciesB
               ELSE {}]
    /\ dfsrChildCollectorFailure = 0
    /\ calls = 0
    /\ pc = [s \in Scrapes |-> "idle"]
    /\ ctx = [s \in Scrapes |-> NoContext]
    /\ answer = [s \in Scrapes |-> [k \in Collectors |-> NoAnswer]]
    /\ ch = [s \in Scrapes |-> [k \in Collectors |-> EmptyBag]]
    /\ unit = [s \in Scrapes |-> [k \in Collectors |-> "none"]]
    /\ wg = [s \in Scrapes |-> 0]
    /\ cpc = [s \in Scrapes |-> [n \in Children |-> "none"]]
    /\ cerr = [s \in Scrapes |-> [n \in Children |-> "none"]]
    /\ tmp = [s \in Scrapes |-> [n \in Children |-> 0]]
    /\ entryCount = [s \in Scrapes |-> 0]
    /\ readCount = [s \in Scrapes |-> 0]
    /\ fetches = [s \in Scrapes |-> 0]
    /\ fetched = [s \in Scrapes |-> {}]

\* The state once the init functions have run and the collectors are
\* constructed from the flags; no disk is being decoded.
InitWith(cfgs) ==
    /\ InitCollectors(cfgs)
    /\ RegistryStarted
    /\ SmartIdle
    /\ SourcesIdle

Init == InitWith(Configurations)

DependencyUnionOfOne ==
    IF collectorsEnabled = {} THEN {}
    ELSE perfCounterDependencies[CHOOSE k \in collectorsEnabled : TRUE]

\* The dependency union of the enabled collectors.
DependencyUnion ==
    UNION {perfCounterDependencies[k] : k \in collectorsEnabled}

\* A scrape request arrives: the snapshot is fetched once for the dependency
\* union and one of the snapshots `snaps` comes back, a fresh context and
\* fresh channels are made, and one unit per enabled collector is started;
\* the DFSR unit enters Collect (wg := sync.WaitGroup{}).
ScrapeStartWith(s, snaps) ==
    /\ pc[s] \in {"idle", "done"}
    /\ calls < MaxCalls
    /\ calls' = calls + 1
    /\ \E snap \in snaps : ctx' = [ctx EXCEPT ![s] = [perfObjects |-> snap]]
    /\ pc' = [pc EXCEPT ![s] = "running"]
    /\ answer' = [answer EXCEPT ![s] = [k \in Collectors |-> NoAnswer]]
    /\ ch' = [ch EXCEPT ![s] = [k \in Collectors |-> EmptyBag]]
    /\ unit' = [unit EXCEPT ![s] =
                   [k \in Collectors |->
                       IF k \in collectorsEnabled THEN "run" ELSE "none"]]
    /\ wg' = [wg EXCEPT ![s] = 0]
    /\ cpc' = [cpc EXCEPT ![s] = [n \in Children |-> "none"]]
    /\ cerr' = [cerr EXCEPT ![s] = [n \in Children |-> "none"]]
    /\ tmp' = [tmp EXCEPT ![s] = [n \in Children |-> 0]]
    /\ entryCount' = [entryCount EXCEPT ![s] = dfsrChildCollectorFailure]
    /\ readCount' = [readCount EXCEPT ![s] = 0]
    /\ fetches' = [fetches EXCEPT ![s] = 1]
    /\ fetched' = [fetched EXCEPT ![s] = DependencyUnion]
    /\ UNCHANGED <<rest, config, dfsrChildCollectorFailure>>

ScrapeStart(s) == ScrapeStartWith(s, Snapshots(DependencyUnion))

\* One turn of the loop of Collect: wg.Add(1); go c.execute(...).
Launch(s, name) ==
    /\ unit[s]["dfsr"] = "run"
    /\ cpc[s][name] = "none"
    /\ wg' = [wg EXCEPT ![s] = @ + 1]
    /\ cpc' = [cpc EXCEPT ![s][name] = "fn"]
    /\ UNCHANGED <<rest, provider, config, dfsrChildCollectorFailure, calls, pc, ctx, answer,
                   ch, unit, cerr, tmp, entryCount, readCount>>

\* execute: _, err := fn(ctx, ch), where the call leaves the map of the
\* context as perfObjects and the number of snapshot fetches at fetchCount.
ExecuteCall(s, name, perfObjects, fetchCount) ==
    /\ cpc[s][name] = "fn"
    /\ LET r == dfsrCollectorFunc(getDFSRChildCollectors[name], ctx[s])
       IN  /\ ch' = [ch EXCEPT ![s]["dfsr"] = @ (+) SeqToBag(r.sent)]
           /\ cerr' = [cerr EXCEPT ![s][name] = IF r.err THEN "err" ELSE "nil"]
           /\ cpc' = [cpc EXCEPT ![s][name] = IF r.err THEN "load" ELSE "duration"]
    /\ ctx' = [ctx EXCEPT ![s] = [perfObjects |-> perfObjects]]
    /\ fetches' = [fetches EXCEPT ![s] = fetchCount]
    /\ UNCHANGED <<rest, fetched, config, dfsrChildCollectorFailure, calls,
                   pc, answer, unit, wg, tmp, entryCount, readCount>>

ExecuteFnFetchesAgain(s, name) ==
    ExecuteCall(s, name, ctx[s].perfObjects, fetches[s] + 1)

ExecuteFnDropsObject(s, name) ==
    ExecuteCall(s, name,
                [o \in DOMAIN ctx[s].perfObjects \ {perfObjectRead[name]} |->
                    ctx[s].perfObjects[o]],
                fetches[s])

\* The child functions only read ctx.perfObjects and fetch nothing.
ExecuteFn(s, name) ==
    ExecuteCall(s, name, ctx[s].perfObjects, fetches[s])

\* execute: c.dfsrChildCollectorFailure++ is a plain load ...
ExecuteLoad(s, name) ==
    /\ cpc[s][name] = "load"
    /\ tmp' = [tmp EXCEPT ![s][name] = dfsrChildCollectorFailure]
    /\ cpc' = [cpc EXCEPT ![s][name] = "store"]
    /\ UNCHANGED <<rest, provider, config, dfsrChildCollectorFailure, calls, pc, ctx, answer,
                   ch, unit, wg, cerr, entryCount, readCount>>

\* ... followed by a plain store of the loaded value plus one.
ExecuteStore(s, name) ==
    /\ cpc[s][name] = "store"
    /\ dfsrChildCollectorFailure' = tmp[s][name] + 1
    /\ tmp' = [tmp EXCEPT ![s][name] = 0]
    /\ cpc' = [cpc EXCEPT ![s][name] = "duration"]
    /\ UNCHANGED <<rest, provider, config, calls, pc, ctx, answer, ch, unit, wg, cerr,
                   entryCount, readCount>>

\* A variant that sends the success sample where the duration sample is due.
ExecuteDurationSendsSuccess(s, name) ==
    /\ cpc[s][name] = "duration"
    /\ ch' = [ch EXCEPT ![s]["dfsr"] = @ (+) SetToBag(
                 {dfsrScrapeSuccessMetric(name, SuccessValue(cerr[s][name] = "err"))})]
    /\ cpc' = [cpc EXCEPT ![s][name] = "success"]
    /\ UNCHANGED <<rest, provider, config, dfsrChildCollectorFailure, calls, pc, ctx, answer,
                   unit, wg, cerr, tmp, entryCount, readCount>>

\* execute: the duration sample is sent.
ExecuteDuration(s, name) ==
    /\ cpc[s][name] = "duration"
    /\ ch' = [ch EXCEPT ![s]["dfsr"] =
                 @ (+) SetToBag({dfsrScrapeDurationMetric(name)})]
    /\ cpc' = [cpc EXCEPT ![s][name] = "success"]
    /\ UNCHANGED <<rest, provider, config, dfsrChildCollectorFailure, calls, pc, ctx, answer,
                   unit, wg, cerr, tmp, entryCount, readCount>>

\* A variant that returns without the deferred wg.Done().
ExecuteSuccessWithoutDone(s, name) ==
    /\ cpc[s][name] = "success"
    /\ ch' = [ch EXCEPT ![s]["dfsr"] = @ (+) SetToBag(
                 {dfsrScrapeSuccessMetric(name, SuccessValue(cerr[s][name] = "err"))})]
    /\ cpc' = [cpc EXCEPT ![s][name] = "done"]
    /\ UNCHANGED <<rest, provider, config, dfsrChildCollectorFailure, calls, pc, ctx, answer,
                   unit, wg, cerr, tmp, entryCount, readCount>>

\* execute: the success sample is sent, the function returns and the
\* deferred wg.Done() runs.
ExecuteSuccess(s, name) ==
    /\ cpc[s][name] = "success"
    /\ ch' = [ch EXCEPT ![s]["dfsr"] = @ (+) SetToBag(
                 {dfsrScrapeSuccessMetric(name, SuccessValue(cerr[s][name] = "err"))})]
    /\ cpc' = [cpc EXCEPT ![s][name] = "done"]
    /\ wg' = [wg EXCEPT ![s] = @ - 1]
    /\ UNCHANGED <<rest, provider, config, dfsrChildCollectorFailure, calls, pc, ctx, answer,
                   unit, cerr, tmp, entryCount, readCount>>

\* wg.Wait() returns: the loop has launched every child of the map and the
\* counter of the wait group is zero.
WaitForLaunchOnly(s) == \A n \in Children : cpc[s][n] # "none"

Wait(s) ==
    /\ \A n \in Children : cpc[s][n] # "none"
    /\ wg[s] = 0

\* Collect after the join: the failure counter decides the result.
CollectReturn(s) ==
    /\ unit[s]["dfsr"] = "run"
    /\ Wait(s)
    /\ readCount' = [readCount EXCEPT ![s] = dfsrChildCollectorFailure]
    /\ unit' = [unit EXCEPT ![s]["dfsr"] =
                   IF dfsrChildCollectorFailure > 0 THEN "err" ELSE "nil"]
    /\ UNCHANGED <<rest, provider, config, dfsrChildCollectorFailure, calls, pc, ctx, answer,
                   ch, wg, cpc, cerr, tmp, entryCount>>

\* NetworkCollector.Collect: the query is answered, collect runs on it.
NetworkCollectorCollect(s) ==
    /\ unit[s]["net"] = "run"
    /\ \E q \in NetworkQueryResults :
          LET r == NetworkCollect(q, CompilePattern(nicWhitelist),
                                  CompilePattern(nicBlacklist))
          IN  /\ answer' = [answer EXCEPT ![s]["net"] = q]
              /\ ch' = [ch EXCEPT ![s]["net"] = @ (+) SeqToBag(r.sent)]
              /\ unit' = [unit EXCEPT ![s]["net"] = IF r.err THEN "err" ELSE "nil"]
    /\ UNCHANGED <<rest, provider, config, dfsrChildCollectorFailure, calls, pc, ctx, wg, cpc,
                   cerr, tmp, entryCount, readCount>>

\* ContainerMetricsCollector.Collect: GetContainers is answered, collect
\* runs on it.
ContainerMetricsCollectorCollect(s) ==
    /\ unit[s]["container"] = "run"
    /\ \E q \in ContainerQueryResults :
          LET r == ContainerCollect(q)
          IN  /\ answer' = [answer EXCEPT ![s]["container"] = q]
              /\ ch' = [ch EXCEPT ![s]["container"] = @ (+) SeqToBag(r.sent)]
              /\ unit' = [unit EXCEPT ![s]["container"] =
                             IF r.err THEN "err" ELSE "nil"]
    /\ UNCHANGED <<rest, provider, config, dfsrChildCollectorFailure, calls, pc, ctx, wg, cpc,
                   cerr, tmp, entryCount, readCount>>

\* Collect of collector "B": an error and no sample when its object is
\* missing from the context, one sample per instance otherwise.
CollectB(s) ==
    /\ unit[s]["B"] = "run"
    /\ LET u == unmarshalObject(ctx[s].perfObjects, "z")
       IN  /\ unit' = [unit EXCEPT ![s]["B"] = IF u.err THEN "err" ELSE "nil"]
           /\ ch' = [ch EXCEPT ![s]["B"] = @ (+) SeqToBag(
                        [r \in DOMAIN u.dst |->
                            MustNewConstMetric("B", [desc |-> "z", fq |-> "z"],
                                               <<u.dst[r].Name>>)])]
    /\ UNCHANGED <<rest, provider, config, dfsrChildCollectorFailure, calls, pc, ctx, answer,
                   wg, cpc, cerr, tmp, entryCount, readCount>>

\* The join of the orchestrator: every unit has reported a terminal outcome.
ScrapeJoin(s) ==
    /\ pc[s] = "running"
    /\ \A k \in Collectors : unit[s][k] \in {"none", "nil", "err"}
    /\ pc' = [pc EXCEPT ![s] = "done"]
    /\ UNCHANGED <<rest, provider, config, dfsrChildCollectorFailure, calls, ctx, answer, ch,
                   unit, wg, cpc, cerr, tmp, entryCount, readCount>>

\* The outcome the orchestrator records for a unit: success iff Collect
\* returned no error.
ScrapeOutcomeSuccess(s, k) == IF unit[s][k] = "nil" THEN 1 ELSE 0

\* The steps of the DFSR collector within a scrape.
RunDFSR(s) ==
    \/ \E n \in Children : Launch(s, n)
    \/ \E n \in Children : ExecuteFn(s, n)
    \/ \E n \in Children : ExecuteLoad(s, n)
    \/ \E n \in Children : ExecuteStore(s, n)
    \/ \E n \in Children : ExecuteDuration(s, n)
    \/ \E n \in Children : ExecuteSuccess(s, n)
    \/ CollectReturn(s)

\* One scrape at a time, of one enabled collector.
Next ==
    \/ ScrapeStart("s1")
    \/ RunDFSR("s1")
    \/ NetworkCollectorCollect("s1")
    \/ ContainerMetricsCollectorCollect("s1")
    \/ ScrapeJoin("s1")

Spec == Init /\ [][Next]_vars

\* One scrape at a time, of the DFSR collector next to collector "B".
InitScrape ==
    InitWith({[enabled |-> {"dfsr", "B"}, sources |-> f,
               filter |-> DefaultFilter] :
                 f \in {DefaultSourcesEnabled, <<"connection">>}})

NextScrape ==
    \/ ScrapeStart("s1")
    \/ RunDFSR("s1")
    \/ CollectB("s1")
    \/ ScrapeJoin("s1")

SpecScrape == InitScrape /\ [][NextScrape]_vars

\* Two scrape requests served concurrently by the DFSR collector with its
\* default sources; a snapshot holds every object with MaxRows rows, or
\* lacks the folder object.
ConcurrentSnapshots ==
    LET full == [o \in SystemObjects |->
                    [ok |-> TRUE, rows |-> [i \in 1..MaxRows |-> [Name |-> i]]]]
    IN  {full,
         [o \in SystemObjects \ {"DFS Replicated Folders"} |-> full[o]]}

InitConcurrent ==
    InitWith({[enabled |-> {"dfsr"}, sources |-> DefaultSourcesEnabled,
               filter |-> DefaultFilter]})

NextConcurrent ==
    \E s \in Scrapes :
        \/ ScrapeStartWith(s, ConcurrentSnapshots)
        \/ RunDFSR(s)
        \/ ScrapeJoin(s)

SpecConcurrent == InitConcurrent /\ [][NextConcurrent]_vars

\* The steps of the goroutine that runs execute for child n.
ExecuteSteps(s, n) ==
    \/ ExecuteFn(s, n)
    \/ ExecuteLoad(s, n)
    \/ ExecuteStore(s, n)
    \/ ExecuteDuration(s, n)
    \/ ExecuteSuccess(s, n)

\* The steps of the goroutine that runs Collect.
CollectSteps(s) ==
    \/ \E n \in Children : Launch(s, n)
    \/ CollectReturn(s)

\* A snapshot for the scheduling of a call: every object with a table of
\* one row, or the same without the folder object, so that a child
\* succeeds or fails; the number of rows adds no step to execute.
LiveSnapshots ==
    LET full == [o \in SystemObjects |-> [ok |-> TRUE, rows |-> <<[Name |-> 1]>>]]
    IN  {full,
         [o \in SystemObjects \ {"DFS Replicated Folders"} |-> full[o]]}

\* One scrape at a time of the DFSR collector with its default sources,
\* where the goroutine of Collect and the goroutine of each child are
\* scheduled again and again while they can take a step.
NextLive ==
    \/ ScrapeStartWith("s1", LiveSnapshots)
    \/ RunDFSR("s1")
    \/ ScrapeJoin("s1")

FairnessLive ==
    /\ WF_vars(CollectSteps("s1"))
    /\ \A n \in Children : WF_vars(ExecuteSteps("s1", n))

SpecLive == InitConcurrent /\ [][NextLive]_vars /\ FairnessLive

\* One scrape at a time of the DFSR collector, of collector "B", or of
\* both, with every value of the DFSR flag; the snapshot holds every
\* requested object with MaxRows rows, or none of them.
DependencySnapshots ==
    {[o \in DependencyUnion \cap SystemObjects |->
         [ok |-> TRUE, rows |-> [i \in 1..MaxRows |-> [Name |-> i]]]],
     [o \in {} |-> [ok |-> FALSE, rows |-> <<>>]]}

InitDependencies ==
    InitWith({[enabled |-> e, sources |-> f, filter |-> DefaultFilter] :
                 e \in {{"dfsr"}, {"B"}, {"dfsr", "B"}},
                 f \in SourcesEnabledValues})

NextDependencies ==
    \/ ScrapeStartWith("s1", DependencySnapshots)
    \/ RunDFSR("s1")
    \/ CollectB("s1")
    \/ ScrapeJoin("s1")

SpecDependencies == InitDependencies /\ [][NextDependencies]_vars

\* ------------------------------------------------------- registration
\* The statement of an init function: Factories[name] = constructor.
FactoriesAssign(name, constructor) ==
    /\ ~registryError
    /\ Factories' = [n \in DOMAIN Factories \cup {name} |->
                        IF n = name THEN constructor ELSE Factories[n]]
    /\ UNCHANGED <<sourcesCall, smart, provider, config, dfsrChildCollectorFailure, calls,
                   pc, ctx, answer, ch, unit, wg, cpc, cerr, tmp, entryCount,
                   readCount, builders, registryError>>

\* registerCollector(name, builder, dependencies...): a name already
\* registered is a fatal configuration error.
registerCollector(name, builder) ==
    /\ ~registryError
    /\ IF name \in DOMAIN builders
       THEN registryError' = TRUE /\ UNCHANGED builders
       ELSE /\ builders' = [n \in DOMAIN builders \cup {name} |->
                               IF n = name THEN builder ELSE builders[n]]
            /\ UNCHANGED registryError
    /\ UNCHANGED <<sourcesCall, smart, provider, config, dfsrChildCollectorFailure, calls,
                   pc, ctx, answer, ch, unit, wg, cpc, cerr, tmp, entryCount,
                   readCount, Factories>>

\* Process start: init functions run, each naming a collector and its
\* constructor.
InitRegistry ==
    /\ InitCollectors({[enabled |-> {"dfsr"}, sources |-> DefaultSourcesEnabled,
                        filter |-> DefaultFilter]})
    /\ RegistryEmpty
    /\ SmartIdle
    /\ SourcesIdle

NextRegistry ==
    \/ \E name \in FactoryNames, constructor \in Constructors :
          FactoriesAssign(name, constructor)
    \/ \E name \in {"dfsr", "net"},
          builder \in {"NewDFSRCollector", "NewNetworkCollector"} :
          registerCollector(name, builder)

SpecRegistry == InitRegistry /\ [][NextRegistry]_vars

\* ----------------------------------------------------- decoding a disk
\* One turn of the loop over disk.VendorSpecific.
DecodeRecord ==
    /\ dpc = "loop"
    /\ recordStart < Len(VendorSpecific)
    /\ LET t == DecodeTurn(VendorSpecific, recordStart, sig)
       IN  /\ sig' = t.sig
           /\ reads' = reads \cup t.read
           /\ turn' = [i |-> recordStart, scored |-> t.scored, raw |-> t.raw]
           /\ dpc' = CASE t.end = "next"  -> "loop"
                       [] t.end = "break" -> "disk"
                       [] t.end = "panic" -> "panic"
           /\ recordStart' = IF t.end = "next" THEN recordStart + 12
                             ELSE recordStart
    /\ UNCHANGED <<sourcesCall, registry, provider, config, dfsrChildCollectorFailure,
                   calls, pc, ctx, answer, ch, unit, wg, cpc, cerr, tmp,
                   entryCount, readCount, VendorSpecific, smartCall>>

\* The loop condition i < len(disk.VendorSpecific) fails.
DecodeDone ==
    /\ dpc = "loop"
    /\ recordStart >= Len(VendorSpecific)
    /\ dpc' = "disk"
    /\ UNCHANGED <<sourcesCall, registry, provider, config, dfsrChildCollectorFailure,
                   calls, pc, ctx, answer, ch, unit, wg, cpc, cerr, tmp,
                   entryCount, readCount, VendorSpecific, recordStart, sig,
                   reads, turn, smartCall>>

\* The decoder on each byte table, from the locals as declared: up to
\* MaxRecords - 1 leading records, then any record or none, then the
\* trailing bytes.
InitSmart ==
    /\ InitCollectors({[enabled |-> {"dfsr"}, sources |-> DefaultSourcesEnabled,
                        filter |-> DefaultFilter]})
    /\ RegistryStarted
    /\ \E k \in 0..(MaxRecords - 1) :
       \E lead \in [1..k -> LeadingRecords] :
       \E last \in AnyRecords \cup LeadingRecords \cup {<<>>} :
       \E trail \in TrailingBytes :
          VendorSpecific = Flatten(lead) \o last \o trail
    /\ recordStart = 0
    /\ dpc = "loop"
    /\ sig = InitialSignals
    /\ reads = {}
    /\ turn = NoTurn
    /\ dst = <<>>
    /\ smartCh = EmptyBag
    /\ smartUnit = "run"
    /\ SourcesIdle

NextSmart == DecodeRecord \/ DecodeDone

SpecSmart == InitSmart /\ [][NextSmart]_vars

\* ------------------------------------------------ the SMART Collect call
\* The descriptors of NewSMARTCollector, all labelled by volume.
SmartDescs ==
    << [desc |-> "SelfTestStatus", fq |-> "selftest_status"],
       [desc |-> "TotalTime",      fq |-> "total_time"],
       [desc |-> "Capability",     fq |-> "capability"] >>

\* The byte tables of the disks a query answers: each leading record and a
\* malformed record that begins with 16, followed by a byte that is not
\* active; a table of one malformed record; no table; and a table that
\* ends with a whole active record.
SmartTables ==
    {r \o <<1>> : r \in LeadingRecords} \cup
    {Record(16, 7, 5, 10, 10, <<1, 0, 0, 0>>) \o <<1>>,
     Record(0, 1, 194, 100, 100, <<45, 0, 0, 0>>),
     <<>>,
     Record(0, 0, 5, 10, 100, <<1, 0, 0, 0>>)}

\* A disk as the query answers it.
SmartDisks ==
    [InstanceName : {"d"}, Active : BOOLEAN, VendorSpecific : SmartTables]

\* What wmi.QueryNamespace answers: an error, or up to MaxDisks disks.
SmartQueryResults ==
    {[err |-> TRUE, dst |-> <<>>]} \cup
    {[err |-> FALSE, dst |-> d] :
        d \in UNION {[1..k -> SmartDisks] : k \in 0..MaxDisks}}

\* Collect calls collect, which queries the disks: a failed query is the
\* error the call returns.
SMARTCollectorCollect ==
    /\ dpc = "idle"
    /\ smartUnit = "none"
    /\ \E q \in SmartQueryResults :
          IF q.err
          THEN /\ smartUnit' = "err"
               /\ dpc' = "return"
               /\ dst' = dst
          ELSE /\ smartUnit' = "run"
               /\ dpc' = "disk"
               /\ dst' = q.dst
    /\ UNCHANGED <<sourcesCall, registry, provider, config, dfsrChildCollectorFailure,
                   calls, pc, ctx, answer, ch, unit, wg, cpc, cerr, tmp,
                   entryCount, readCount, VendorSpecific, recordStart, sig,
                   reads, turn, smartCh>>

\* The loop over dst reaches the next disk: one that is not active is
\* passed over, an active one sends its three samples and the decoder
\* starts on its byte table with the locals as declared.
SmartNextDisk ==
    /\ dpc = "disk"
    /\ dst # <<>>
    /\ LET disk == Head(dst)
       IN  /\ dst' = Tail(dst)
           /\ IF ~disk.Active
              THEN UNCHANGED <<VendorSpecific, recordStart, dpc, sig, reads,
                               turn, smartCh>>
              ELSE /\ smartCh' = smartCh (+) SeqToBag(
                         [j \in DOMAIN SmartDescs |->
                             MustNewConstMetric("smart", SmartDescs[j],
                                                <<disk.InstanceName>>)])
                   /\ VendorSpecific' = disk.VendorSpecific
                   /\ recordStart' = 0
                   /\ sig' = InitialSignals
                   /\ reads' = {}
                   /\ turn' = NoTurn
                   /\ dpc' = "loop"
    /\ UNCHANGED <<sourcesCall, registry, provider, config, dfsrChildCollectorFailure,
                   calls, pc, ctx, answer, ch, unit, wg, cpc, cerr, tmp,
                   entryCount, readCount, smartUnit>>

\* The loop over dst is over: collect returns nil, nil and so does Collect.
SmartReturn ==
    /\ dpc = "disk"
    /\ dst = <<>>
    /\ smartUnit' = "nil"
    /\ dpc' = "return"
    /\ UNCHANGED <<sourcesCall, registry, provider, config, dfsrChildCollectorFailure,
                   calls, pc, ctx, answer, ch, unit, wg, cpc, cerr, tmp,
                   entryCount, readCount, VendorSpecific, recordStart, sig,
                   reads, turn, dst, smartCh>>

InitSmartCollect ==
    /\ InitCollectors({[enabled |-> {"dfsr"}, sources |-> DefaultSourcesEnabled,
                        filter |-> DefaultFilter]})
    /\ RegistryStarted
    /\ SmartIdle
    /\ SourcesIdle

NextSmartCollect ==
    \/ SMARTCollectorCollect
    \/ SmartNextDisk
    \/ DecodeRecord
    \/ DecodeDone
    \/ SmartReturn

SpecSmartCollect == InitSmartCollect /\ [][NextSmartCollect]_vars

\* ------------------------------------------- expanding the sources flag
\* The characters of a flag value: the separator and two words.
FlagAlphabet == {"connection", "folder", Comma}

\* Every flag value of up to MaxLen characters.
FlagStrings == UNION {[1..n -> FlagAlphabet] : n \in 0..MaxLen}

\* dfsrExpandEnabledSources(enabledArg) returns one of its slices.
ExpandSources ==
    /\ ~expandResult.returned
    /\ \E result \in dfsrExpandEnabledSources(enabledArg) :
          expandResult' = [returned |-> TRUE, slice |-> result]
    /\ UNCHANGED <<registry, smart, provider, config,
                   dfsrChildCollectorFailure, calls, pc, ctx, answer, ch,
                   unit, wg, cpc, cerr, tmp, entryCount, readCount, enabledArg>>

InitSources ==
    /\ InitCollectors({[enabled |-> {"dfsr"}, sources |-> DefaultSourcesEnabled,
                        filter |-> DefaultFilter]})
    /\ RegistryStarted
    /\ SmartIdle
    /\ enabledArg \in FlagStrings
    /\ expandResult = NotExpanded

NextSources == ExpandSources

SpecSources == InitSources /\ [][NextSources]_vars

\* ------------------------------------------------------------ properties
\* The DFSR Collect call of scrape s has returned.
Returned(s) == unit[s]["dfsr"] \in {"nil", "err"}

\* The children whose function returned an error in the call of scrape s.
FailedChildren(s) == {n \in Children : cerr[s][n] = "err"}

\* The descriptors each child function sends with, as a set.
childDescNames ==
    [n \in Children |-> {childDescs[n][j].desc : j \in DOMAIN childDescs[n]}]

\* How many data samples of child n the channel of scrape s holds.
DataSent(s, n) ==
    LET mine == {x \in BagToSet(ch[s]["dfsr"]) : x.desc \in childDescNames[n]}
    IN  BagCardinality([x \in mine |-> ch[s]["dfsr"][x]])

\* How many duration and success samples labelled n the channel holds.
DurationSent(s, n) == CopiesIn(dfsrScrapeDurationMetric(n), ch[s]["dfsr"])
SuccessSent(s, n, v) == CopiesIn(dfsrScrapeSuccessMetric(n, v), ch[s]["dfsr"])

\* C1: a DFSR Collect call returns an error if and only if at least one of
\* its children failed during that same call, also when an earlier call on
\* the same collector had a failing child.
C1_ErrorIffChildFailedInCall ==
    \A s \in Scrapes :
        Returned(s) => (unit[s]["dfsr"] = "err" <=> FailedChildren(s) # {})

\* C2: when a Collect call has returned, every data sample of every child
\* that succeeded (one per row of its table and descriptor) is in the output
\* exactly once, whether or not a sibling failed.
C2_SuccessfulChildDataExactlyOnce ==
    \A s \in Scrapes : \A n \in Children :
        (Returned(s) /\ cerr[s][n] = "nil") =>
            LET rows == ctx[s].perfObjects[perfObjectRead[n]].rows
            IN  /\ \A r \in DOMAIN rows : \A j \in DOMAIN childDescs[n] :
                      CopiesIn(MustNewConstMetric("dfsr", childDescs[n][j],
                                                  <<rows[r].Name>>),
                               ch[s]["dfsr"]) = 1
                /\ DataSent(s, n) = Len(rows) * Len(childDescs[n])

\* C2 witness: a returned call in which one child failed and another child
\* succeeded with at least one row.
C2_Witness ==
    \E s \in Scrapes :
        /\ Returned(s)
        /\ FailedChildren(s) # {}
        /\ \E n \in Children : cerr[s][n] = "nil" /\ DataSent(s, n) > 0

\* C3: every launched child emits exactly one duration sample and exactly
\* one success sample labelled with its name, failed or not: none before it
\* reaches the send, one from then on; the success sample is 1 if and only
\* if the child function returned no error.
C3_OneMetaPairPerChild ==
    \A s \in Scrapes : \A n \in Children :
        /\ DurationSent(s, n) = IF cpc[s][n] \in {"success", "done"} THEN 1 ELSE 0
        /\ SuccessSent(s, n, 0) + SuccessSent(s, n, 1) =
               IF cpc[s][n] = "done" THEN 1 ELSE 0
        /\ cpc[s][n] = "done" =>
               (SuccessSent(s, n, 1) = 1 <=> cerr[s][n] = "nil")

\* C3 witness: a returned call with a failed child and a succeeded child.
C3_Witness ==
    \E s \in Scrapes :
        /\ Returned(s)
        /\ \E n, m \in Children : cerr[s][n] = "err" /\ cerr[s][m] = "nil"

\* C4: the failure counter grows during a call, as the parent reads it after
\* the join, by the number of children that failed in the call.
C4_NoLostUpdate ==
    \A s \in Scrapes :
        Returned(s) =>
            readCount[s] - entryCount[s] = Cardinality(FailedChildren(s))

\* C5: a call that began with the counter at zero and none of whose own
\* children failed returns no error, whatever the children of a scrape
\* running at the same time do.
C5_IndependentOfConcurrentScrape ==
    \A s \in Scrapes :
        (Returned(s) /\ entryCount[s] = 0 /\ FailedChildren(s) = {}) =>
            unit[s]["dfsr"] = "nil"
\* C6: a DFSR Collect call has returned only when every child of the map
\* is launched and finished, with its data samples and its two meta samples
\* sent; and nothing is sent on the call's channel once it has returned.
C6_JoinBeforeReturn ==
    /\ [](\A s \in Scrapes :
            Returned(s) =>
                /\ wg[s] = 0
                /\ \A n \in Children :
                      /\ cpc[s][n] = "done"
                      /\ DurationSent(s, n) = 1
                      /\ SuccessSent(s, n, 0) + SuccessSent(s, n, 1) = 1
                      /\ cerr[s][n] = "nil" =>
                             DataSent(s, n) =
                                 Len(ctx[s].perfObjects[perfObjectRead[n]].rows)
                                     * Len(childDescs[n]))
    /\ [][\A s \in Scrapes :
            (Returned(s) /\ unit'[s]["dfsr"] = unit[s]["dfsr"]) =>
                ch'[s]["dfsr"] = ch[s]["dfsr"]]_vars

\* C6 witness: a call has returned after children that sent data samples.
C6_Witness ==
    \E s \in Scrapes :
        /\ Returned(s)
        /\ \A n \in Children : cpc[s][n] = "done"
        /\ \E n \in Children : DataSent(s, n) > 0

\* The counter object o was asked for and is missing from, or unreadable in,
\* the snapshot of scrape s.
Unavailable(s, o) ==
    o \notin DOMAIN ctx[s].perfObjects \/ ~ctx[s].perfObjects[o].ok

\* C7: when a scrape is done and a counter object it asked for was
\* unavailable, every enabled collector that declared the object reports
\* success 0, and every enabled collector that did not declare it (and whose
\* own declared objects are available) reports success 1 with the data
\* samples of its declared objects.
C7_FailureIsolation ==
    \A s \in Scrapes :
        pc[s] = "done" =>
            \A o \in DependencyUnion :
                Unavailable(s, o) =>
                    \A k \in collectorsEnabled :
                        /\ o \in perfCounterDependencies[k] =>
                               ScrapeOutcomeSuccess(s, k) = 0
                        /\ (/\ o \notin perfCounterDependencies[k]
                            /\ \A d \in perfCounterDependencies[k] :
                                   ~Unavailable(s, d)) =>
                               /\ ScrapeOutcomeSuccess(s, k) = 1
                               /\ k = "dfsr" =>
                                      \A n \in Children :
                                          perfObjectRead[n] \in perfCounterDependencies[k] =>
                                              DataSent(s, n) =
                                                  Len(ctx[s].perfObjects[perfObjectRead[n]].rows)
                                                      * Len(childDescs[n])
                               /\ k = "B" =>
                                      BagCardinality(ch[s][k]) =
                                          Len(ctx[s].perfObjects["z"].rows)

\* C8: the object name read by every child that Collect launches is among
\* the object names the DFSR collector declared.
C8_DeclaresChildrenDependencies ==
    \A s \in Scrapes : \A n \in Children :
        cpc[s][n] # "none" =>
            perfObjectRead[n] \in perfCounterDependencies["dfsr"]

\* The child sources named in the sources-enabled list.
SourcesListed ==
    {n \in Children :
        \E result \in dfsrExpandEnabledSources(dfsrEnabledCollectors) :
           <<n>> \in Range(result)}

\* C9: a Collect call runs exactly the listed child sources: a listed source
\* has run when the call returns, and a source that is not listed is never
\* launched, sends no data, duration or success sample and records no
\* failure.
C9_RunsOnlyEnabledSources ==
    \A s \in Scrapes : \A n \in Children :
        /\ (Returned(s) /\ n \in SourcesListed) => cpc[s][n] = "done"
        /\ n \notin SourcesListed =>
               /\ cpc[s][n] = "none"
               /\ cerr[s][n] = "none"
               /\ DataSent(s, n) = 0
               /\ DurationSent(s, n) = 0
               /\ SuccessSent(s, n, 0) + SuccessSent(s, n, 1) = 0

\* C10: all-or-nothing: a DFSR child whose counter object is missing or
\* unreadable returns an error and has sent no data sample; a network or
\* container collector call whose query failed returns an error and has
\* sent no sample.
C10_AllOrNothing ==
    \A s \in Scrapes :
        /\ \A n \in Children :
              (cerr[s][n] # "none" /\ Unavailable(s, perfObjectRead[n])) =>
                  cerr[s][n] = "err" /\ DataSent(s, n) = 0
        /\ \A k \in {"net", "container"} :
              (unit[s][k] \in {"nil", "err"} /\ answer[s][k].err) =>
                  unit[s][k] = "err" /\ ch[s][k] = EmptyBag

\* C10 witness: a child function has returned for a missing or unreadable
\* object while a sibling has sent its data samples.
C10_Witness ==
    \E s \in Scrapes : \E n, m \in Children :
        /\ cerr[s][n] = "err"
        /\ Unavailable(s, perfObjectRead[n])
        /\ DataSent(s, m) > 0

C12_OneFetchPerScrape ==
    \A s \in Scrapes :
        /\ pc[s] # "idle" => fetches[s] = 1
        /\ \A k \in Collectors : unit[s][k] # "none" => fetches[s] = 1
        /\ \A n \in Children : cpc[s][n] # "none" => fetches[s] = 1

\* Both collectors ran on overlapping declarations, every child returned.
C12_Witness ==
    /\ collectorsEnabled = {"dfsr", "B"}
    /\ perfCounterDependencies["dfsr"] \cap perfCounterDependencies["B"] # {}
    /\ pc["s1"] = "done"
    /\ \A n \in Children : cpc["s1"][n] = "done"
    /\ unit["s1"]["B"] = "nil"
    /\ fetches["s1"] = 1

C14_ContextReadOnly ==
    [][\A s \in Scrapes : pc[s] = "running" => ctx'[s] = ctx[s]]_vars

\* Every child has read its object from a snapshot that holds rows, and the
\* composite call has returned.
C14_Witness ==
    /\ pc["s1"] = "done"
    /\ \A n \in Children :
          /\ cpc["s1"][n] = "done"
          /\ cerr["s1"][n] = "nil"
          /\ Len(ctx["s1"].perfObjects[perfObjectRead[n]].rows) >= 1

\* The network call of scrape s has returned on an answered query.
NetworkReturned(s) ==
    unit[s]["net"] \in {"nil", "err"} /\ ~answer[s]["net"].err

\* How many samples of the network call of scrape s are labelled with the
\* mangled form of name.
NicSamples(s, name) ==
    LET mine == {x \in BagToSet(ch[s]["net"]) :
                    x.labels = <<mangleNetworkName(name)>>}
    IN  BagCardinality([x \in mine |-> ch[s]["net"][x]])

\* The flags as the user wrote them: name matches the whitelist in full and
\* does not match the blacklist in full.
PassesFilter(name) ==
    FullMatch(nicWhitelist, name) /\ ~FullMatch(nicBlacklist, name)

\* C15 as stated: an interface row is included (its samples are emitted) if
\* and only if its name matches the whitelist in full and does not match the
\* blacklist in full.
C15_IncludedIffFilter ==
    \A s \in Scrapes :
        NetworkReturned(s) =>
            \A i \in DOMAIN answer[s]["net"].dst :
                LET name == answer[s]["net"].dst[i].Name
                IN  NicSamples(s, name) > 0 <=> PassesFilter(name)

\* C15 amended: an interface row is included if and only if its name is
\* not empty, matches the whitelist in full and does not match the blacklist
\* in full.
C15_IncludedIffFilterAndNamed ==
    \A s \in Scrapes :
        NetworkReturned(s) =>
            \A i \in DOMAIN answer[s]["net"].dst :
                LET name == answer[s]["net"].dst[i].Name
                IN  NicSamples(s, name) > 0 <=>
                        (name # <<>> /\ PassesFilter(name))

\* Whitelist ".+" and a blacklist naming the loopback interface: the
\* interface "e0" was answered and its samples were emitted.
C15_Witness ==
    /\ nicWhitelist = AnyPlus
    /\ nicBlacklist = Anchored(Literal(<<"l", "o">>))
    /\ NetworkReturned("s1")
    /\ \E i \in DOMAIN answer["s1"]["net"].dst :
          answer["s1"]["net"].dst[i].Name = <<"e", "0">>
    /\ NicSamples("s1", <<"e", "0">>) = Len(NetworkDescs)

\* C16: an empty result is success: a network call whose query succeeded
\* with no row passing the filter, and a container call whose query found no
\* container, return no error and emit no sample.
C16_EmptyResultIsSuccess ==
    \A s \in Scrapes :
        /\ (/\ NetworkReturned(s)
            /\ \A i \in DOMAIN answer[s]["net"].dst :
                  ~PassesFilter(answer[s]["net"].dst[i].Name))
              => unit[s]["net"] = "nil" /\ ch[s]["net"] = EmptyBag
        /\ (/\ unit[s]["container"] \in {"nil", "err"}
            /\ ~answer[s]["container"].err
            /\ answer[s]["container"].dst = <<>>)
              => unit[s]["container"] = "nil" /\ ch[s]["container"] = EmptyBag

\* The query answered the loopback interface only and the blacklist names
\* it: the call returned without error and without a sample.
C16_Witness ==
    /\ nicBlacklist = Anchored(Literal(<<"l", "o">>))
    /\ NetworkReturned("s1")
    /\ Len(answer["s1"]["net"].dst) >= 1
    /\ \A i \in DOMAIN answer["s1"]["net"].dst :
          answer["s1"]["net"].dst[i].Name = <<"l", "o">>
    /\ unit["s1"]["net"] = "nil"
    /\ ch["s1"]["net"] = EmptyBag

\* The byte at offset k of the record the last turn of the decoder was on.
RecordByte(k) == ByteAt(VendorSpecific, turn.i + k)

\* The last turn reached the switches on a record of 12 bytes.
DecodedWholeRecord ==
    turn.scored /\ Len(VendorSpecific) >= turn.i + 12

\* The five bytes of v written little-endian.
LittleEndianBytes(v) ==
    <<v % 256, (v \div 256) % 256, (v \div 65536) % 256,
      (v \div 16777216) % 256, (v \div 16777216) \div 256>>

\* C17: whatever the length of the byte table, the decoder reads no byte at
\* an index greater than or equal to that length.
C17_NoReadPastEnd ==
    \A j \in reads : j < Len(VendorSpecific)

\* C18: the raw value decoded from a record whose id uses the wide field is
\* the little-endian integer of its bytes at offsets 8..12; for an id using
\* the two-byte field it is b8 + b9 * 2^8.
C18_RawIsLittleEndian ==
    DecodedWholeRecord =>
        IF RecordByte(3) \in {4, 9, 193, 195, 200, 225, 241, 242, 246}
        THEN LittleEndianBytes(turn.raw) =
                 <<RecordByte(8), RecordByte(9), RecordByte(10),
                   RecordByte(11), RecordByte(12)>>
        ELSE RecordByte(3) # 194 =>
                 turn.raw = RecordByte(8) + RecordByte(9) * 256

\* C19: the temperature decoded from a record with id 194 is the byte at
\* offset 8 of the record, whatever the bytes at offsets 9..12.
C19_TemperatureIsOneByte ==
    (DecodedWholeRecord /\ RecordByte(3) = 194) =>
        sig.temperature = RecordByte(8)

\* A record with id 194, 45 at offset 8 and other bytes behind it was
\* decoded to the temperature 45.
C19_Witness ==
    /\ DecodedWholeRecord
    /\ RecordByte(3) = 194
    /\ RecordByte(8) = 45
    /\ RecordByte(9) # 0 /\ RecordByte(10) # 0 /\ RecordByte(11) # 0
    /\ sig.temperature = 45

\* The record at offset i is active as the claim has it: its first byte is
\* 0, or it is 16 and the record is the leading one.
ActiveAsClaimed(i) ==
    \/ ByteAt(VendorSpecific, i) = 0
    \/ ByteAt(VendorSpecific, i) = 16 /\ i = 0

\* C20: a record is treated as active exactly when its first byte is 0, or
\* is 16 in the leading record: a turn on any other record changes no signal
\* and no count, and a turn on such a record, when it is well-formed and
\* followed by a byte, decodes it.
C20_ActiveIffZeroOrLeadingSixteen ==
    [][(dpc = "loop" /\ recordStart < Len(VendorSpecific)) =>
          /\ ~ActiveAsClaimed(recordStart) => sig' = sig
          /\ (/\ ActiveAsClaimed(recordStart)
              /\ Len(VendorSpecific) >= recordStart + 13
              /\ ByteAt(VendorSpecific, recordStart + 1) = 0)
                => turn'.scored /\ turn'.i = recordStart]_vars

\* The decoder is about to take a turn on the record at recordStart.
AtRecord == dpc = "loop" /\ recordStart < Len(VendorSpecific)

\* The turn just taken reached the two switches.
Decoded == AtRecord /\ turn'.scored /\ turn'.i = recordStart

\* C21: a record start with fewer than 12 bytes left is skipped: the turn
\* on it changes no signal and no count and does not abort the call.
C21_TruncatedRecordSkipped ==
    [][(AtRecord /\ Len(VendorSpecific) - recordStart < 12) =>
          sig' = sig /\ dpc' # "panic"]_vars

\* The attribute ids with a case in the second switch.
ScoredIds ==
    {1, 3, 5, 7, 9, 10, 170, 171, 172, 173, 177, 179, 180, 181, 182, 183,
     184, 188, 194, 196, 197, 198, 199, 200, 201, 202, 225, 226, 230, 231,
     232, 233, 241, 246}

\* C22: decoding an active record whose attribute id has no case in the
\* scoring switch leaves every signal and every count unchanged.
C22_UnknownIdNotScored ==
    [][(Decoded /\ ByteAt(VendorSpecific, recordStart + 3) \notin ScoredIds)
          => sig' = sig]_vars

\* A record with the id 2 and a normalized value of 10 was decoded and no
\* count has grown.
C22_Witness ==
    /\ DecodedWholeRecord
    /\ RecordByte(3) = 2
    /\ RecordByte(6) = 10
    /\ sig = InitialSignals

\* The threshold the claim gives for an attribute id (-1: none).
ClaimedThreshold(id) ==
    CASE id \in {1, 3, 184} -> 50
      [] id = 7             -> 60
      [] id = 200           -> 99
      [] id \in {5, 170, 171, 172, 173, 177, 179, 181, 182, 183, 202, 226,
                 231, 232, 233} -> 10
      [] OTHER              -> -1

\* C24: decoding a record whose id has a threshold T adds one to the
\* attribute-critical count for the threshold rule exactly when its
\* normalized or its worst value is at most T; for id 230 exactly when its
\* worst value is at most 90. (Id 184 has a second rule on the same count:
\* one more when its raw value is positive.)
C24_ThresholdRule ==
    [][Decoded =>
          LET id == ByteAt(VendorSpecific, recordStart + 3)
              normalized == ByteAt(VendorSpecific, recordStart + 6)
              worst == ByteAt(VendorSpecific, recordStart + 7)
              other == IF id = 184 /\ turn'.raw > 0 THEN 1 ELSE 0
              added == sig'.attrcriterror - sig.attrcriterror - other
          IN  /\ ClaimedThreshold(id) # -1 =>
                    added = IF \/ normalized <= ClaimedThreshold(id)
                               \/ worst <= ClaimedThreshold(id)
                            THEN 1 ELSE 0
              /\ id = 230 => added = IF worst <= 90 THEN 1 ELSE 0]_vars

\* A record with id 7 whose worst value alone is at the threshold 60 was
\* decoded and counted.
C24_Witness ==
    /\ DecodedWholeRecord
    /\ RecordByte(3) = 7
    /\ RecordByte(6) = 100
    /\ RecordByte(7) = 60
    /\ sig.attrcriterror >= 1

\* The record the decoder is at is whole and malformed: its first byte is 0
\* or 16 and its second byte is not zero.
Malformed ==
    /\ AtRecord
    /\ Len(VendorSpecific) >= recordStart + 12
    /\ ByteAt(VendorSpecific, recordStart) \in {0, 16}
    /\ ByteAt(VendorSpecific, recordStart + 1) # 0

\* C23: a malformed record is skipped: the turn on it changes no signal
\* and no counter, sends no sample, leaves the disks still to come as
\* they are and goes on to the record 12 bytes further; the call returns
\* an error only from its query, before any disk is decoded, and returns
\* nil only once every disk was reached.
C23_MalformedRecordSkipped ==
    /\ [][Malformed => /\ sig' = sig
                       /\ dpc' = "loop"
                       /\ recordStart' = recordStart + 12
                       /\ smartCall' = smartCall]_vars
    /\ [][smartUnit' = "err" /\ smartUnit # "err" => dpc = "idle"]_vars
    /\ [](smartUnit = "nil" => dst = <<>>)

\* A malformed first record was skipped, the decoder is at the second
\* record and another disk is still to come.
C23_Witness ==
    /\ dpc = "loop"
    /\ recordStart = 12
    /\ turn.i = 0
    /\ ~turn.scored
    /\ Len(VendorSpecific) >= 12
    /\ ByteAt(VendorSpecific, 0) \in {0, 16}
    /\ ByteAt(VendorSpecific, 1) # 0
    /\ sig = InitialSignals
    /\ dst # <<>>
    /\ smartUnit = "run"

\* The tokens of a flag value: its non-empty runs of characters other than
\* the separator that a separator or an end of the string bounds on each side.
Tokens(str) ==
    LET n == Len(str)
        Bounded(a, b) ==
            /\ a <= b
            /\ \A k \in a..b : str[k] # Comma
            /\ a = 1 \/ str[a - 1] = Comma
            /\ b = n \/ str[b + 1] = Comma
    IN  {SubSeq(str, q[1], q[2]) :
            q \in {r \in (1..n) \X (1..n) : Bounded(r[1], r[2])}}

\* C25: the slice returned for a flag value holds exactly the tokens of
\* the value, each once; every value with the same tokens, however often
\* and in whatever order they are written, yields the same set.
C25_SourcesNormalized ==
    expandResult.returned =>
        LET result == expandResult.slice
        IN  /\ Range(result) = Tokens(enabledArg)
            /\ \A i, j \in 1..Len(result) : result[i] = result[j] => i = j
            /\ \A other \in FlagStrings :
                  Tokens(other) = Tokens(enabledArg) =>
                     \A slice \in dfsrExpandEnabledSources(other) :
                        Range(slice) = Range(result)

\* A value with a repeated or an empty token was expanded to two sources.
C25_Witness ==
    /\ expandResult.returned
    /\ Len(expandResult.slice) = 2
    /\ Len(Split(enabledArg)) > 2

\* How many success samples labelled n, of either value, the channel holds.
AnySuccessSent(s, n) == SuccessSent(s, n, 0) + SuccessSent(s, n, 1)

\* C26: within one child of a Collect call the data samples come before
\* the duration sample and the duration sample before the success sample:
\* a data sample is sent only while neither is sent, the duration sample
\* only after the child's function returned and while no success sample
\* is sent, the success sample only after the duration sample.  Across
\* children the samples interleave.
C26_OrderWithinChild ==
    [][\A s \in Scrapes :
          ch'[s]["dfsr"] # ch[s]["dfsr"] =>
             \A n \in Children :
                /\ DataSent(s, n)' > DataSent(s, n) =>
                      DurationSent(s, n)' = 0 /\ AnySuccessSent(s, n)' = 0
                /\ DurationSent(s, n)' > DurationSent(s, n) =>
                      /\ cerr[s][n] # "none"
                      /\ AnySuccessSent(s, n)' = 0
                /\ AnySuccessSent(s, n)' > AnySuccessSent(s, n) =>
                      DurationSent(s, n) = 1]_vars

\* The volume child has sent its data, duration and success samples while
\* the connection child, whose data samples are sent, has not sent its
\* duration sample and the folder child's function has sent nothing yet.
C26_Witness ==
    \E s \in Scrapes :
        /\ DataSent(s, "volume") > 0
        /\ DurationSent(s, "volume") = 1
        /\ AnySuccessSent(s, "volume") = 1
        /\ DataSent(s, "connection") > 0
        /\ cpc[s]["connection"] = "duration"
        /\ cpc[s]["folder"] = "fn"

\* The data samples the DFSR channel of scrape s holds.
DataSamples(s) ==
    {x \in BagToSet(ch[s]["dfsr"]) :
        \E n \in Children : \E j \in DOMAIN childDescs[n] :
           x.desc = childDescs[n][j].desc}

\* C27: in the output of one DFSR Collect call no two data samples have
\* the same metric name and the same label values, whatever the tables of
\* the connection, folder and volume objects hold.
C27_DataSamplesDistinct ==
    \A s \in Scrapes :
        \A x, y \in DataSamples(s) :
            /\ ch[s]["dfsr"][x] = 1
            /\ (x.fq = y.fq /\ x.labels = y.labels) => x = y

\* C28: in one network collector call two distinct interface names that
\* both pass the filter and are emitted never have the same nic label, and
\* an interface that passes the filter is dropped only if its name is empty.
C28_DistinctNamesDistinctLabels ==
    \A s \in Scrapes :
        NetworkReturned(s) =>
            LET nics == answer[s]["net"].dst
            IN  /\ \A i, j \in DOMAIN nics :
                      (/\ nics[i].Name # nics[j].Name
                       /\ PassesFilter(nics[i].Name)
                       /\ PassesFilter(nics[j].Name)
                       /\ NicSamples(s, nics[i].Name) > 0
                       /\ NicSamples(s, nics[j].Name) > 0)
                      => mangleNetworkName(nics[i].Name) #
                            mangleNetworkName(nics[j].Name)
                /\ \A i \in DOMAIN nics :
                      (PassesFilter(nics[i].Name) /\ NicSamples(s, nics[i].Name) = 0)
                      => nics[i].Name = <<>>

\* How many samples of the container call of scrape s carry the id of the
\* i-th container.
ContainerSamples(s, i) ==
    LET mine == {x \in BagToSet(ch[s]["container"]) : x.labels[1] = DockerId(i)}
    IN  BagCardinality([x \in mine |-> ch[s]["container"][x]])

\* C30: when GetContainers answers, the container call returns no error;
\* a container that fails to open or to give its statistics has no sample,
\* and every other container of the call has its seven base samples and
\* six samples per network endpoint.
C30_ContainerFailureIsolated ==
    \A s \in Scrapes :
        (unit[s]["container"] \in {"nil", "err"} /\ ~answer[s]["container"].err) =>
            LET containers == answer[s]["container"].dst
            IN  /\ unit[s]["container"] = "nil"
                /\ \A i \in DOMAIN containers :
                      ContainerSamples(s, i) =
                          IF containers[i].open /\ containers[i].stats
                          THEN Len(ContainerDescs) +
                               Len(ContainerNetworkDescs) * Len(containers[i].Network)
                          ELSE 0

\* Two containers were answered: the first failed to open, the second has
\* one endpoint and its 13 samples were sent.
C30_Witness ==
    \E s \in Scrapes :
        /\ unit[s]["container"] = "nil"
        /\ Len(answer[s]["container"].dst) = 2
        /\ ~answer[s]["container"].dst[1].open
        /\ answer[s]["container"].dst[2].stats
        /\ Len(answer[s]["container"].dst[2].Network) = 1
        /\ ContainerSamples(s, 1) = 0
        /\ ContainerSamples(s, 2) = 13

\* The children of the call of scrape s that are launched and not finished.
RunningChildren(s) == {n \in Children : cpc[s][n] \notin {"none", "done"}}

\* C29: when the goroutines of the children and of Collect are scheduled
\* with weak fairness, every Collect call that has begun returns, and at
\* its return no child is running.
C29_CollectReturns ==
    /\ (unit["s1"]["dfsr"] = "run") ~> Returned("s1")
    /\ [](\A s \in Scrapes :
             Returned(s) => (RunningChildren(s) = {} /\ wg[s] = 0))

\* A call has returned with an error after the folder child failed; no
\* child is running and the wait group counter is back at zero.
C29_Witness ==
    /\ unit["s1"]["dfsr"] = "err"
    /\ cerr["s1"]["folder"] = "err"
    /\ RunningChildren("s1") = {}
    /\ wg["s1"] = 0
    /\ \A n \in Children : cpc["s1"][n] = "done"

====
